---------------------------- MODULE Spec2Model ----------------------------
(***************************************************************************)
(* Model of main.py: the document-similarity command line tool.            *)
(*                                                                         *)
(*   main -> read_file x2 -> calculate_similarity                          *)
(*            (preprocess_text x2 -> TfidfVectorizer -> cosine_similarity) *)
(*        -> write_result                                                  *)
(*                                                                         *)
(* Text is a sequence of Unicode code points, a file is a sequence of      *)
(* bytes.  Real numbers are kept exact: a similarity s is the reduced      *)
(* fraction num/den of s^2 (s >= 0, so s is determined by s^2).            *)
(***************************************************************************)
EXTENDS Integers, Sequences, FiniteSets, TLC

(***************************************************************************)
(* Bounds of the model.                                                    *)
(***************************************************************************)
\* the longest document, in words
MaxWords == 2
\* the longest command line, len(sys.argv)
MaxArgc == 5

(***************************************************************************)
(* Characters.                                                             *)
(***************************************************************************)
\* U+7684, the CJK ideograph "de" (the most common Chinese stopword)
HanDe == 30340
Space == 32
Newline == 10

IsSpace(c) == c \in {9, 10, 11, 12, 13, 32}
IsAsciiAlnum(c) == (c >= 48 /\ c <= 57) \/ (c >= 65 /\ c <= 90) \/ (c >= 97 /\ c <= 122)
IsHan(c) == c >= 19968 /\ c <= 40917
\* the regular expression class \w under (?u): letters, digits, underscore
IsWordChar(c) == IsAsciiAlnum(c) \/ c = 95 \/ IsHan(c)
\* str.lower() on one character
Lower(c) == IF c >= 65 /\ c <= 90 THEN c + 32 ELSE c

\* ' '.join(words)
RECURSIVE Join(_)
Join(words) ==
    IF words = <<>> THEN <<>>
    ELSE IF Len(words) = 1 THEN words[1]
    ELSE words[1] \o <<Space>> \o Join(Tail(words))

(***************************************************************************)
(* The documents and files the model draws its inputs from.                *)
(***************************************************************************)
Words == { <<97, 98>>, <<99, 100>>, <<HanDe>> }
WordSeqs == UNION { [1..n -> Words] : n \in 0..MaxWords }
Texts == { Join(ws) : ws \in WordSeqs }

(***************************************************************************)
(* Codecs: open(..., encoding='utf-8') and open(..., encoding='gbk',       *)
(* errors='ignore').                                                       *)
(***************************************************************************)
EncodeUtf8Char(c) ==
    IF c < 128 THEN <<c>>
    ELSE IF c < 2048 THEN <<192 + (c \div 64), 128 + (c % 64)>>
    ELSE <<224 + (c \div 4096), 128 + ((c \div 64) % 64), 128 + (c % 64)>>

\* the GBK code table, restricted to the ideographs of Words
EncodeGbkChar(c) == IF c = HanDe THEN <<181, 196>> ELSE <<c>>

RECURSIVE EncodeUtf8(_)
EncodeUtf8(text) ==
    IF text = <<>> THEN <<>> ELSE EncodeUtf8Char(Head(text)) \o EncodeUtf8(Tail(text))

RECURSIVE EncodeGbk(_)
EncodeGbk(text) ==
    IF text = <<>> THEN <<>> ELSE EncodeGbkChar(Head(text)) \o EncodeGbk(Tail(text))

IsCont(b) == b >= 128 /\ b <= 191

\* bytes.decode('utf-8'): [ok |-> FALSE] stands for UnicodeDecodeError
RECURSIVE DecodeUtf8(_)
DecodeUtf8(bytes) ==
    IF bytes = <<>> THEN [ok |-> TRUE, text |-> <<>>]
    ELSE LET b == bytes[1]
             n == IF b < 128 THEN 1
                  ELSE IF b >= 194 /\ b <= 223 THEN 2
                  ELSE IF b >= 224 /\ b <= 239 THEN 3
                  ELSE 0
         IN IF n = 0 \/ Len(bytes) < n \/ \E i \in 2..n : ~IsCont(bytes[i])
            THEN [ok |-> FALSE, text |-> <<>>]
            ELSE LET c == IF n = 1 THEN b
                          ELSE IF n = 2 THEN (b - 192) * 64 + (bytes[2] - 128)
                          ELSE (b - 224) * 4096 + (bytes[2] - 128) * 64 + (bytes[3] - 128)
                     rest == DecodeUtf8(SubSeq(bytes, n + 1, Len(bytes)))
                 IN [ok |-> rest.ok, text |-> IF rest.ok THEN <<c>> \o rest.text ELSE <<>>]

\* bytes.decode('gbk', errors='ignore'): never fails, undecodable bytes are dropped
RECURSIVE DecodeGbk(_)
DecodeGbk(bytes) ==
    IF bytes = <<>> THEN <<>>
    ELSE IF bytes[1] < 128 THEN <<bytes[1]>> \o DecodeGbk(Tail(bytes))
    ELSE IF Len(bytes) >= 2 /\ bytes[1] = 181 /\ bytes[2] = 196
         THEN <<HanDe>> \o DecodeGbk(SubSeq(bytes, 3, Len(bytes)))
    ELSE DecodeGbk(Tail(bytes))

(***************************************************************************)
(* preprocess_text: the stopword list, jieba.cut, the filter.              *)
(***************************************************************************)
\* str.splitlines(), for lines ended by "\n"
RECURSIVE SplitLinesFrom(_, _)
SplitLinesFrom(text, line) ==
    IF text = <<>> THEN (IF line = <<>> THEN <<>> ELSE <<line>>)
    ELSE IF Head(text) = Newline THEN <<line>> \o SplitLinesFrom(Tail(text), <<>>)
    ELSE SplitLinesFrom(Tail(text), Append(line, Head(text)))

SplitLines(text) == SplitLinesFrom(text, <<>>)

Range(seq) == { seq[i] : i \in 1..Len(seq) }

\* The states of the path stopwords.txt.  A file holds bytes; a list saved in
\* GBK is not decodable as UTF-8.
SwMissing == [kind |-> "missing", bytes |-> <<>>]
SwDirectory == [kind |-> "dir", bytes |-> <<>>]
SwDenied == [kind |-> "denied", bytes |-> <<>>]
SwFile(bytes) == [kind |-> "file", bytes |-> bytes]
\* the stopword list of two lines, "de" and "ab"
SwLists == { <<HanDe, Newline, 97, 98>> }
SwSources ==
    {SwMissing, SwDirectory, SwDenied, SwFile(EncodeGbk(<<HanDe>>))}
        \cup { SwFile(EncodeUtf8(l)) : l \in SwLists }

\* main.py:40-48.  outcome "loaded": the try block ran through; "degraded":
\* FileNotFoundError was caught; "raised": another exception left the try
\* statement, which has no handler for it.
LoadStopwords(src) ==
    IF src.kind = "missing"
    THEN [outcome |-> "degraded", exc |-> "FileNotFoundError", stopwords |-> {},
          notice |-> "Error: stopwords.txt not found!"]
    ELSE IF src.kind = "dir"
    THEN [outcome |-> "raised", exc |-> "IsADirectoryError", stopwords |-> {},
          notice |-> ""]
    ELSE IF src.kind = "denied"
    THEN [outcome |-> "raised", exc |-> "PermissionError", stopwords |-> {},
          notice |-> ""]
    ELSE LET d == DecodeUtf8(src.bytes)
         IN IF d.ok
            THEN [outcome |-> "loaded", exc |-> "", stopwords |-> Range(SplitLines(d.text)),
                  notice |-> "loaded stopwords"]
            ELSE [outcome |-> "raised", exc |-> "UnicodeDecodeError", stopwords |-> {},
                  notice |-> ""]

\* jieba.cut on text made of ASCII words, whitespace and isolated ideographs:
\* a run of ASCII letters and digits is one term, every other character
\* (a whitespace character, a punctuation mark, an ideograph standing alone) is
\* a term of its own.
RECURSIVE CutFrom(_, _)
CutFrom(text, buf) ==
    LET flush == IF buf = <<>> THEN <<>> ELSE <<buf>>
    IN IF text = <<>> THEN flush
       ELSE IF IsAsciiAlnum(Head(text)) THEN CutFrom(Tail(text), Append(buf, Head(text)))
       ELSE flush \o << <<Head(text)>> >> \o CutFrom(Tail(text), <<>>)

jieba_cut(text) == CutFrom(text, <<>>)

\* word.strip(): truthy unless every character is whitespace
Strip(word) == \E i \in 1..Len(word) : ~IsSpace(word[i])

KeepWord_NoStopwordTest(word, stopwords) == Strip(word)

\* main.py:50, the condition of the list comprehension
KeepWord(word, stopwords) == Strip(word) /\ word \notin stopwords

\* main.py:50, the list comprehension
FilterWords(cands, stopwords) == SelectSeq(cands, LAMBDA w : KeepWord(w, stopwords))

\* main.py:49-51, with the stopword set the call loaded
preprocess_words(text, stopwords) == Join(FilterWords(jieba_cut(text), stopwords))

(***************************************************************************)
(* TfidfVectorizer(max_features=3000).fit_transform and cosine_similarity. *)
(***************************************************************************)
max_features == 3000

\* the analyzer: lowercase, then every match of (?u)\b\w\w+\b, that is every
\* maximal run of word characters that is at least two characters long
RECURSIVE AnalyzeFrom(_, _)
AnalyzeFrom(doc, run) ==
    LET flush == IF Len(run) >= 2 THEN <<run>> ELSE <<>>
    IN IF doc = <<>> THEN flush
       ELSE IF IsWordChar(Head(doc))
            THEN AnalyzeFrom(Tail(doc), Append(run, Lower(Head(doc))))
       ELSE flush \o AnalyzeFrom(Tail(doc), <<>>)

Analyze(doc) == AnalyzeFrom(doc, <<>>)

\* the number of occurrences of t in seq
TermCount(seq, t) == Cardinality({ i \in 1..Len(seq) : seq[i] = t })

\* the terms of the corpus, cut to the max_features most frequent ones
LimitFeatures(terms, docs) ==
    IF Cardinality(terms) <= max_features THEN terms
    ELSE LET total(t) == TermCount(docs[1], t) + TermCount(docs[2], t)
         IN CHOOSE kept \in SUBSET terms :
                /\ Cardinality(kept) = max_features
                /\ \A t \in kept : \A u \in terms \ kept : total(t) >= total(u)

Vocabulary(docA, docB) ==
    LET docs == <<Analyze(docA), Analyze(docB)>>
    IN LimitFeatures(Range(docs[1]) \cup Range(docs[2]), docs)

\* the number of the two documents a term occurs in
DocFreq(t, docA, docB) ==
    (IF TermCount(Analyze(docA), t) > 0 THEN 1 ELSE 0)
        + (IF TermCount(Analyze(docB), t) > 0 THEN 1 ELSE 0)

\* smooth idf, ln((1 + n) / (1 + df)) + 1 with n = 2 documents, in units of
\* 1/37: df = 2 gives 1 = 37/37, df = 1 gives 1 + ln 1.5 = 1.40547 = 52/37
Idf(df) == IF df >= 2 THEN 37 ELSE 52

\* a row of the tf-idf matrix, before the row is scaled to unit length
TfidfRow(doc, docA, docB) ==
    [t \in Vocabulary(docA, docB) |->
        TermCount(Analyze(doc), t) * Idf(DocFreq(t, docA, docB))]

RECURSIVE SumOver(_, _)
SumOver(f, S) ==
    IF S = {} THEN 0
    ELSE LET x == CHOOSE y \in S : TRUE IN f[x] + SumOver(f, S \ {x})

Dot(a, b) == SumOver([t \in DOMAIN a |-> a[t] * b[t]], DOMAIN a)

RECURSIVE Gcd(_, _)
Gcd(m, n) == IF n = 0 THEN m ELSE Gcd(n, m % n)

\* the square of a similarity, as a reduced fraction
Frac(num, den) == [num |-> num \div Gcd(num, den), den |-> den \div Gcd(num, den)]
Unset == [num |-> 0 - 1, den |-> 1]
IsScore(s) == s.num >= 0 /\ s.den > 0

cosine_similarity_OneNorm(a, b) ==
    LET na == Dot(a, a)
        nb == Dot(b, b)
        ab == Dot(a, b)
    IN IF na = 0 \/ nb = 0 THEN Frac(0, 1) ELSE Frac(ab * ab, na * na)

\* cosine_similarity of two rows: each row is scaled to unit length (a zero
\* row is left as it is) and the scaled rows are multiplied
cosine_similarity(a, b) ==
    LET na == Dot(a, a)
        nb == Dot(b, b)
        ab == Dot(a, b)
    IN IF na = 0 \/ nb = 0 THEN Frac(0, 1) ELSE Frac(ab * ab, na * nb)

\* main.py:66-73.  fit_transform raises ValueError ("empty vocabulary") when no
\* document yields a term.
Vectorize(docA, docB) ==
    IF Vocabulary(docA, docB) = {}
    THEN [outcome |-> "raised", exc |-> "ValueError", value |-> Unset]
    ELSE [outcome |-> "returned", exc |-> "",
          value |-> cosine_similarity(TfidfRow(docA, docA, docB),
                                      TfidfRow(docB, docA, docB))]

(***************************************************************************)
(* f"{similarity:.2f}"                                                     *)
(***************************************************************************)
\* a/b <= c/d for naturals with b, d > 0, without multiplying
RECURSIVE FracLeq(_, _, _, _)
FracLeq(a, b, c, d) ==
    IF a \div b # c \div d THEN a \div b < c \div d
    ELSE IF a % b = 0 THEN TRUE
    ELSE IF c % d = 0 THEN FALSE
    ELSE FracLeq(d, c % d, b, a % b)

\* the similarity in hundredths, rounded: (k - 1/2)/100 <= s < (k + 1/2)/100
Hundredths(s) ==
    CHOOSE k \in 0..100 :
        /\ k = 0 \/ FracLeq((2 * k - 1) * (2 * k - 1), 40000, s.num, s.den)
        /\ ~FracLeq((2 * k + 1) * (2 * k + 1), 40000, s.num, s.den)

Format(s) ==
    LET k == Hundredths(s)
    IN <<48 + (k \div 100), 46, 48 + ((k \div 10) % 10), 48 + (k % 10)>>

(***************************************************************************)
(* read_file, preprocess_text and write_result as functions of the state   *)
(* of the file system they meet.                                           *)
(***************************************************************************)
\* The states of an input path: no such path, a directory, a file saved in
\* UTF-8, a one-word file saved in GBK.
PathMissing == [kind |-> "missing", bytes |-> <<>>]
PathDirectory == [kind |-> "dir", bytes |-> <<>>]
PathFile(bytes) == [kind |-> "file", bytes |-> bytes]
PathStates ==
    {PathMissing, PathDirectory}
        \cup { PathFile(EncodeUtf8(t)) : t \in Texts }
        \cup { PathFile(EncodeGbk(w)) : w \in Words }

\* main.py:8-31.  open_ok: the open of line 22 succeeds; reopen_ok: the open of
\* line 26 succeeds (the file can be removed or locked between the two).
\* outcome "returned": a return statement ran; "exit": the handler of line 28
\* printed and called sys.exit(1); "raised": an exception left read_file.
read_file(path, open_ok, reopen_ok) ==
    IF path.kind = "missing"
    THEN [outcome |-> "exit", exc |-> "FileNotFoundError", text |-> <<>>, encoding |-> ""]
    ELSE IF path.kind # "file"
    THEN [outcome |-> "exit", exc |-> "IsADirectoryError", text |-> <<>>, encoding |-> ""]
    ELSE IF ~open_ok
    THEN [outcome |-> "exit", exc |-> "OSError", text |-> <<>>, encoding |-> ""]
    ELSE IF DecodeUtf8(path.bytes).ok
    THEN [outcome |-> "returned", exc |-> "", text |-> DecodeUtf8(path.bytes).text,
          encoding |-> "utf-8"]
    ELSE IF ~reopen_ok
    THEN [outcome |-> "raised", exc |-> "OSError", text |-> <<>>, encoding |-> "gbk"]
    ELSE [outcome |-> "returned", exc |-> "", text |-> DecodeGbk(path.bytes),
          encoding |-> "gbk"]

\* main.py:34-51
preprocess_text(text, src) ==
    LET l == LoadStopwords(src)
    IN [outcome |-> IF l.outcome = "raised" THEN "raised" ELSE "returned",
        exc |-> IF l.outcome = "raised" THEN l.exc ELSE "",
        notice |-> l.notice,
        value |-> IF l.outcome = "raised" THEN <<>> ELSE preprocess_words(text, l.stopwords)]

\* main.py:54-73, with stopwords.txt in state src throughout the call
calculate_similarity(original, copied, src) ==
    LET a == preprocess_text(original, src)
        b == preprocess_text(copied, src)
    IN IF a.outcome = "raised"
       THEN [outcome |-> "raised", exc |-> a.exc, value |-> Unset]
       ELSE Vectorize(a.value, b.value)

\* A result path that does not exist, and the content a result file holds
\* from an earlier run ("old").
Absent == << 0 - 1 >>
OldResult == <<111, 108, 100>>

\* main.py:76-94.  has_dir: os.path.dirname(result_path) is not empty; fault:
\* the call that raises, if any; persisted: the number of characters that
\* reached the file when the write fails.  open(..., 'w') creates or truncates
\* the file before anything is written.
write_result(file, sim, has_dir, fault, persisted) ==
    IF has_dir /\ fault = "makedirs" THEN [outcome |-> "exit", file |-> file]
    ELSE IF fault = "open" THEN [outcome |-> "exit", file |-> file]
    ELSE IF fault = "write"
    THEN [outcome |-> "exit", file |-> SubSeq(Format(sim), 1, persisted)]
    ELSE [outcome |-> "returned", file |-> Format(sim)]

UsageError_OffByOne(argc) == argc # 3

\* main.py:101
UsageError(argc) == argc # 4

(***************************************************************************)
(* The run of main.                                                        *)
(***************************************************************************)
VARIABLES
    argv_len,            \* len(sys.argv)
    pc,                  \* the statement main is at
    stopwords_txt,       \* the path stopwords.txt in the file system
    result_file,         \* the result path in the file system
    original_text, copied_text,
    original_processed, copied_processed,
    similarity,
    stdout, stderr,      \* what was printed, one tag per print
    exit_status,         \* -1 while running
    exc,                 \* the exception that ended the run, and where it was raised
    result_before,       \* history: the result path when the run started
    read_log,            \* history: one record per call of read_file
    load_log             \* history: one record per load of the stopword list

vars == <<argv_len, pc, stopwords_txt, result_file, original_text, copied_text,
          original_processed, copied_processed, similarity, stdout, stderr,
          exit_status, exc, result_before, read_log, load_log>>

NoText == << 0 - 1 >>
NoExc == [type |-> "", where |-> ""]

Init ==
    /\ argv_len \in 1..MaxArgc
    /\ pc = "main"
    /\ stopwords_txt \in SwSources
    /\ result_file \in {Absent, OldResult}
    /\ result_before = result_file
    /\ original_text = NoText
    /\ copied_text = NoText
    /\ original_processed = NoText
    /\ copied_processed = NoText
    /\ similarity = Unset
    /\ stdout = <<>>
    /\ stderr = <<>>
    /\ exit_status = 0 - 1
    /\ exc = NoExc
    /\ read_log = <<>>
    /\ load_log = <<>>

\* main.py:101-103
MainUsage ==
    /\ pc = "main"
    /\ UsageError(argv_len)
    /\ stderr' = Append(stderr, "usage")
    /\ exit_status' = 1
    /\ pc' = "exit1"
    /\ UNCHANGED <<argv_len, stopwords_txt, result_file, original_text, copied_text,
                   original_processed, copied_processed, similarity, stdout, exc,
                   result_before, read_log, load_log>>

\* main.py:106-113
MainStart ==
    /\ pc = "main"
    /\ ~UsageError(argv_len)
    /\ stdout' = stdout \o <<"original path", "copied path", "result path">>
    /\ pc' = "read_original"
    /\ UNCHANGED <<argv_len, stopwords_txt, result_file, original_text, copied_text,
                   original_processed, copied_processed, similarity, stderr,
                   exit_status, exc, result_before, read_log, load_log>>

\* what a call of read_file does to the run
ReadInto(r, path, next_pc) ==
    /\ read_log' = Append(read_log, [kind |-> path.kind,
                                     utf8 |-> DecodeUtf8(path.bytes).ok,
                                     outcome |-> r.outcome,
                                     encoding |-> r.encoding])
    /\ IF r.outcome = "returned"
       THEN /\ pc' = next_pc
            /\ UNCHANGED <<stderr, exit_status, exc>>
       ELSE IF r.outcome = "exit"
       THEN /\ pc' = "exit1"
            /\ stderr' = Append(stderr, "read error")
            /\ exit_status' = 1
            /\ UNCHANGED exc
       ELSE /\ pc' = "uncaught"
            /\ stderr' = Append(stderr, "traceback")
            /\ exit_status' = 1
            /\ exc' = [type |-> r.exc, where |-> "read_file"]

\* main.py:116
ReadOriginal ==
    /\ pc = "read_original"
    /\ \E path \in PathStates, open_ok \in BOOLEAN, reopen_ok \in BOOLEAN :
          LET r == read_file(path, open_ok, reopen_ok)
          IN /\ ReadInto(r, path, "read_copied")
             /\ original_text' = IF r.outcome = "returned" THEN r.text ELSE original_text
    /\ UNCHANGED <<argv_len, stopwords_txt, result_file, copied_text,
                   original_processed, copied_processed, similarity, stdout,
                   result_before, load_log>>

\* main.py:117
ReadCopied ==
    /\ pc = "read_copied"
    /\ \E path \in PathStates, open_ok \in BOOLEAN, reopen_ok \in BOOLEAN :
          LET r == read_file(path, open_ok, reopen_ok)
          IN /\ ReadInto(r, path, "preprocess_original")
             /\ copied_text' = IF r.outcome = "returned" THEN r.text ELSE copied_text
    /\ UNCHANGED <<argv_len, stopwords_txt, result_file, original_text,
                   original_processed, copied_processed, similarity, stdout,
                   result_before, load_log>>

\* what a call of preprocess_text does to the run
PreprocessInto(r, next_pc) ==
    /\ load_log' = Append(load_log, [src |-> stopwords_txt,
                                     outcome |-> LoadStopwords(stopwords_txt).outcome,
                                     stopwords |-> LoadStopwords(stopwords_txt).stopwords])
    /\ IF r.outcome = "returned"
       THEN /\ pc' = next_pc
            /\ stdout' = Append(stdout, r.notice)
            /\ UNCHANGED <<stderr, exit_status, exc>>
       ELSE /\ pc' = "uncaught"
            /\ stderr' = Append(stderr, "traceback")
            /\ exit_status' = 1
            /\ exc' = [type |-> r.exc, where |-> "preprocess_text"]
            /\ UNCHANGED stdout

\* main.py:62
PreprocessOriginal ==
    /\ pc = "preprocess_original"
    /\ LET r == preprocess_text(original_text, stopwords_txt)
       IN /\ PreprocessInto(r, "preprocess_copied")
          /\ original_processed' =
                IF r.outcome = "returned" THEN r.value ELSE original_processed
    /\ UNCHANGED <<argv_len, stopwords_txt, result_file, original_text, copied_text,
                   copied_processed, similarity, result_before, read_log>>

\* main.py:63
PreprocessCopied ==
    /\ pc = "preprocess_copied"
    /\ LET r == preprocess_text(copied_text, stopwords_txt)
       IN /\ PreprocessInto(r, "vectorize")
          /\ copied_processed' =
                IF r.outcome = "returned" THEN r.value ELSE copied_processed
    /\ UNCHANGED <<argv_len, stopwords_txt, result_file, original_text, copied_text,
                   original_processed, similarity, result_before, read_log>>

\* Another process edits, removes or restores stopwords.txt between the two
\* calls of preprocess_text.  (A change before the first call is a different
\* initial state, a change after the second is never read.)
StopwordSourceChanges ==
    /\ pc = "preprocess_copied"
    /\ \E src \in SwSources \ {stopwords_txt} : stopwords_txt' = src
    /\ UNCHANGED <<argv_len, pc, result_file, original_text, copied_text,
                   original_processed, copied_processed, similarity, stdout, stderr,
                   exit_status, exc, result_before, read_log, load_log>>

\* main.py:66-73 and 123
VectorizeAndScore ==
    /\ pc = "vectorize"
    /\ LET r == Vectorize(original_processed, copied_processed)
       IN IF r.outcome = "returned"
          THEN /\ similarity' = r.value
               /\ stdout' = Append(stdout, "rate")
               /\ pc' = "write_result"
               /\ UNCHANGED <<stderr, exit_status, exc>>
          ELSE /\ pc' = "uncaught"
               /\ stderr' = Append(stderr, "traceback")
               /\ exit_status' = 1
               /\ exc' = [type |-> r.exc, where |-> "calculate_similarity"]
               /\ UNCHANGED <<similarity, stdout>>
    /\ UNCHANGED <<argv_len, stopwords_txt, result_file, original_text, copied_text,
                   original_processed, copied_processed, result_before, read_log,
                   load_log>>

\* main.py:124
WriteResult ==
    /\ pc = "write_result"
    /\ \E has_dir \in BOOLEAN, fault \in {"none", "makedirs", "open", "write"},
          persisted \in 0..(Len(Format(similarity)) - 1) :
          LET r == write_result(result_file, similarity, has_dir, fault, persisted)
          IN /\ result_file' = r.file
             /\ IF r.outcome = "returned"
                THEN /\ pc' = "done"
                     /\ exit_status' = 0
                     /\ UNCHANGED stderr
                ELSE /\ pc' = "exit1"
                     /\ exit_status' = 1
                     /\ stderr' = Append(stderr, "write error")
    /\ UNCHANGED <<argv_len, stopwords_txt, original_text, copied_text,
                   original_processed, copied_processed, similarity, stdout, exc,
                   result_before, read_log, load_log>>

Next ==
    \/ MainUsage
    \/ MainStart
    \/ ReadOriginal
    \/ ReadCopied
    \/ PreprocessOriginal
    \/ PreprocessCopied
    \/ StopwordSourceChanges
    \/ VectorizeAndScore
    \/ WriteResult

Spec == Init /\ [][Next]_vars

(***************************************************************************)
(* Properties.                                                             *)
(***************************************************************************)
\* both calls of preprocess_text have returned
BothProcessed == original_processed # NoText /\ copied_processed # NoText

\* calculate_similarity got past preprocessing and has ended
CalcEnded == BothProcessed /\ pc # "vectorize"

\* stopwords.txt was in the same state at both loads
SourceStable == Len(load_log) = 2 /\ load_log[1].src = load_log[2].src

\* str.split(' ') of a processed document ("" holds no term)
RECURSIVE SplitOnSpaceFrom(_, _)
SplitOnSpaceFrom(text, term) ==
    IF text = <<>> THEN <<term>>
    ELSE IF Head(text) = Space THEN <<term>> \o SplitOnSpaceFrom(Tail(text), <<>>)
    ELSE SplitOnSpaceFrom(Tail(text), Append(term, Head(text)))

TermsOf(processed) == IF processed = <<>> THEN <<>> ELSE SplitOnSpaceFrom(processed, <<>>)

\* out is cands with some elements left out, the order kept
RECURSIVE IsSubsequence(_, _)
IsSubsequence(out, cands) ==
    IF out = <<>> THEN TRUE
    ELSE IF cands = <<>> THEN FALSE
    ELSE IF Head(out) = Head(cands) THEN IsSubsequence(Tail(out), Tail(cands))
    ELSE IsSubsequence(out, Tail(cands))

Blank(term) == \A i \in 1..Len(term) : IsSpace(term[i])

\* out is exactly cands without the blank terms and the stopwords
ExactlyFiltered(out, cands, stopwords) ==
    /\ \A i \in 1..Len(out) : ~Blank(out[i]) /\ out[i] \notin stopwords
    /\ IsSubsequence(out, cands)
    /\ \A t \in Range(cands) \cup Range(out) :
          TermCount(out, t) =
              IF Blank(t) \/ t \in stopwords THEN 0 ELSE TermCount(cands, t)

\* C1: Zero case.  When preprocessing either text yields no token (both
\* included), calculate_similarity returns 0.0 and raises nothing.
C1_ZeroCase ==
    (CalcEnded /\ (original_processed = <<>> \/ copied_processed = <<>>))
        => (similarity = Frac(0, 1) /\ exc = NoExc)

\* C2: Self-similarity.  calculate_similarity(A, A) returns 1.0 for every text A
\* whose token sequence after preprocess_text is not empty, whatever the length
\* of its terms.
C2_SelfSimilarity ==
    (CalcEnded /\ SourceStable /\ original_text = copied_text
        /\ original_processed # <<>>)
        => similarity = Frac(1, 1)

\* C3: All-or-nothing result file.  After a run that ends in a fatal condition
\* the result path is untouched or holds the complete two-decimal score string.
C3_AllOrNothing ==
    exit_status = 1
        => \/ result_file = result_before
           \/ IsScore(similarity) /\ result_file = Format(similarity)

\* C4: Usage error.  With any number of positional arguments other than three,
\* main prints the usage message to stderr and exits with status 1, before any
\* file is read, any text is tokenized or scored, and before the result file
\* is created or modified.
C4_UsageError ==
    argv_len - 1 # 3
        => /\ pc \in {"main", "exit1"}
           /\ pc = "exit1" => (stderr = <<"usage">> /\ exit_status = 1)
           /\ pc = "main" => (stderr = <<>> /\ exit_status = 0 - 1)
           /\ stdout = <<>>
           /\ read_log = <<>> /\ load_log = <<>>
           /\ original_text = NoText /\ copied_text = NoText
           /\ original_processed = NoText /\ copied_processed = NoText
           /\ similarity = Unset
           /\ result_file = result_before

C4_Witness ==
    /\ argv_len - 1 # 3
    /\ pc = "exit1"
    /\ result_before = OldResult

\* the stopword source is absent or unreadable
Unreadable(src) == src.kind # "file" \/ ~DecodeUtf8(src.bytes).ok

\* C5: Stopword degradation.  Whenever the stopword source is absent or
\* unreadable (missing, permission denied, not UTF-8, a directory),
\* preprocess_text goes on with the empty stopword set and returns; the failure
\* never propagates to the caller.
C5_StopwordDegradation ==
    /\ \A i \in 1..Len(load_log) :
          Unreadable(load_log[i].src)
              => (load_log[i].outcome = "degraded" /\ load_log[i].stopwords = {})
    /\ exc.where # "preprocess_text"

\* C6: Ingestion outcomes.  read_file returns text only for a regular file,
\* decoded as UTF-8 or, only after a UTF-8 decode failure, as GBK; for a missing
\* path, a path that is no regular file or any failure of either read attempt
\* it prints a diagnostic and exits with status 1: no exception leaves it.
C6_IngestionOutcomes ==
    /\ \A i \in 1..Len(read_log) :
          LET r == read_log[i]
          IN /\ r.outcome \in {"returned", "exit"}
             /\ r.outcome = "returned"
                   => (r.kind = "file" /\ r.encoding = (IF r.utf8 THEN "utf-8" ELSE "gbk"))
             /\ r.kind # "file" => r.outcome = "exit"
    /\ exc.where # "read_file"

\* C7: Range.  For all texts A and B calculate_similarity produces a score s
\* with 0.0 <= s <= 1.0.
C7_Range ==
    CalcEnded
        => (IsScore(similarity) /\ similarity.num >= 0
              /\ similarity.num <= similarity.den)

\* what the run's call of calculate_similarity came to
RunOutcome ==
    [outcome |-> IF exc.where = "calculate_similarity" THEN "raised" ELSE "returned",
     exc |-> IF exc.where = "calculate_similarity" THEN exc.type ELSE "",
     value |-> similarity]

\* C8: Symmetry.  With the stopword source unchanged, calculate_similarity(A, B)
\* equals calculate_similarity(B, A).
C8_Symmetry ==
    (CalcEnded /\ SourceStable)
        => RunOutcome = calculate_similarity(copied_text, original_text, load_log[1].src)

C8_Witness ==
    /\ CalcEnded /\ SourceStable
    /\ original_text # copied_text
    /\ Analyze(original_processed) # Analyze(copied_processed)
    /\ similarity.num > 0 /\ similarity.num < similarity.den

\* C9: Tokenizer filter.  The output of preprocess_text is exactly the
\* segmenter's candidate terms, in their order and with repeats, without the
\* whitespace-only terms and the stopwords; the empty text yields "".
C9_TokenizerFilter ==
    /\ original_processed # NoText
          => /\ ExactlyFiltered(TermsOf(original_processed), jieba_cut(original_text),
                                load_log[1].stopwords)
             /\ original_text = <<>> => original_processed = <<>>
    /\ copied_processed # NoText
          => /\ ExactlyFiltered(TermsOf(copied_processed), jieba_cut(copied_text),
                                load_log[2].stopwords)
             /\ copied_text = <<>> => copied_processed = <<>>

C9_Witness ==
    /\ copied_processed # NoText
    /\ load_log[2].stopwords # {}
    /\ copied_processed # <<>>
    /\ \E i \in 1..Len(jieba_cut(copied_text)) :
          jieba_cut(copied_text)[i] \in load_log[2].stopwords
    /\ \E i \in 1..Len(jieba_cut(copied_text)) : Blank(jieba_cut(copied_text)[i])

\* C10: Stopword set lifecycle.  The stopword set is loaded once per run, so
\* both documents are tokenized against the same stopword set even if the
\* stopword source changes while the run is in progress.
C10_StopwordLifecycle ==
    BothProcessed => load_log[1].stopwords = load_log[2].stopwords

=============================================================================
